---- MODULE Spec2Model ----
(***************************************************************************)
(* The task loop of babyagi.py: a queue of tasks, one task executed per    *)
(* iteration through a completion call, its result stored in the vector    *)
(* index, new tasks created from the result and appended, and the queue    *)
(* rewritten from the prioritization response.                             *)
(*                                                                         *)
(* Text is a sequence of one-character strings.  The alphabet holds two    *)
(* digits, a letter, the period, the space and the line break: the         *)
(* characters the parsers of the program tell apart.                       *)
(***************************************************************************)
EXTENDS Integers, Sequences, FiniteSets, TLC

VARIABLES
    pc,              \* position of the script: check, executing, ... halted
    err,             \* the exception that ended the script, "none" while it runs
    task_list,       \* the deque of tasks
    task,            \* the task popped in this iteration
    result,          \* the execution result of this iteration
    this_task_id,    \* int(task["task_id"])
    task_id_counter, \* the id counter of the main loop
    new_tasks,       \* the list task_creation_agent returned
    response,        \* the text the last openai_call returned
    index,           \* the records of the Pinecone index
    matches,         \* the matches of the last index.query
    context,         \* the list the last context_agent call returned
    llm_calls,       \* completion calls made so far
    mem_queries,     \* index.query calls made so far
    mem_writes,      \* index.upsert calls made so far
    assigned,        \* history: the ids given to new tasks, in order
    at_pop,          \* history: queue, index and counter when the task was popped
    trace,           \* history: the phases of the current iteration, in order
    polls,           \* history: times the queue was found empty, up to MaxPolls
    executed,        \* history: the tasks popped so far, in order
    objective,       \* ' '.join(args.objective), as given
    initial_task,    \* args.task
    join             \* args.join

vars == <<pc, err, task_list, task, result, this_task_id, task_id_counter,
          new_tasks, response, index, matches, context, llm_calls,
          mem_queries, mem_writes, assigned, at_pop, trace, polls, executed,
          objective, initial_task, join>>

----------------------------------------------------------------------------
(* Bounds *)

\* The loop stops creating tasks when the counter would pass this value.
MaxCounter == 4

\* Longest text the parsers are checked on, in characters.
MaxLen == 5

\* Most matches a query answer holds in the context specification.
MaxMatches == 3

\* Similarity scores are drawn from 1..MaxScore.
MaxScore == 2

\* The count of idle polls stops growing here; the loop does not.
MaxPolls == 2

\* Longest objective text the start of the script is checked on.
MaxConfigLen == 2

----------------------------------------------------------------------------
(* Text *)

Char == {"1", "2", "a", ".", " ", "\n"}

Digit == {"0", "1", "2", "3", "4", "5", "6", "7", "8", "9"}

DigitChars == <<"0", "1", "2", "3", "4", "5", "6", "7", "8", "9">>

\* str.strip() with no argument removes whitespace, line breaks included.
IsSpace(c) == c \in {" ", "\n"}

RECURSIVE LStrip(_)
LStrip(s) ==
    IF s = <<>> THEN s
    ELSE IF IsSpace(Head(s)) THEN LStrip(Tail(s)) ELSE s

RECURSIVE RStrip(_)
RStrip(s) ==
    IF s = <<>> THEN s
    ELSE IF IsSpace(s[Len(s)]) THEN RStrip(SubSeq(s, 1, Len(s) - 1)) ELSE s

Strip(s) == RStrip(LStrip(s))

\* Index of the first c in s, 0 when there is none (str.find).
Find(s, c) ==
    IF \E i \in 1..Len(s) : s[i] = c
    THEN CHOOSE i \in 1..Len(s) : s[i] = c /\ \A j \in 1..(i - 1) : s[j] # c
    ELSE 0

\* s.split(c): every piece between separators; the empty text gives <<"">>.
RECURSIVE Split(_, _)
Split(s, c) ==
    LET i == Find(s, c) IN
    IF i = 0 THEN <<s>>
    ELSE <<SubSeq(s, 1, i - 1)>> \o Split(SubSeq(s, i + 1, Len(s)), c)

\* s.split(c, 1): at most one split, at the first separator.
SplitOnce(s, c) ==
    LET i == Find(s, c) IN
    IF i = 0 THEN <<s>>
    ELSE <<SubSeq(s, 1, i - 1), SubSeq(s, i + 1, Len(s))>>

\* str(n) for n >= 0.
RECURSIVE Str(_)
Str(n) ==
    IF n < 10 THEN <<DigitChars[n + 1]>>
    ELSE Str(n \div 10) \o <<DigitChars[(n % 10) + 1]>>

DigitValue(c) == (CHOOSE i \in 1..10 : DigitChars[i] = c) - 1

\* int(s) accepts surrounding whitespace and then needs decimal digits only.
IsIntLiteral(s) ==
    LET t == Strip(s) IN t # <<>> /\ \A i \in 1..Len(t) : t[i] \in Digit

RECURSIVE DigitsValue(_)
DigitsValue(t) ==
    IF t = <<>> THEN 0
    ELSE 10 * DigitsValue(SubSeq(t, 1, Len(t) - 1)) + DigitValue(t[Len(t)])

ParseInt(s) == DigitsValue(Strip(s))

\* Every text of at most n characters.
TextsUpTo(n) == UNION {[1..k -> Char] : k \in 0..n}

----------------------------------------------------------------------------
(* Tasks and ids *)

\* A task_id is an int (the seed task, the counter) or a str (taken from the
\* prioritization response); the two never compare equal in Python.
IntId(n) == [kind |-> "int", val |-> n]

StrIdAsInt(s) ==
    IF s # <<>> /\ \A i \in 1..Len(s) : s[i] \in {"1", "2"}
    THEN [kind |-> "int", val |-> IF s[Len(s)] = "1" THEN 1 ELSE 2]
    ELSE [kind |-> "str", val |-> s]

StrId(s) == [kind |-> "str", val |-> s]

\* str(task_id), as the f-string of result_id and the prints format it.
IdText(id) == IF id.kind = "int" THEN Str(id.val) ELSE id.val

\* Whether int(task_id) returns; it raises ValueError otherwise.
IntReturns(id) == id.kind = "int" \/ IsIntLiteral(id.val)

IntOf(id) == IF id.kind = "int" THEN id.val ELSE ParseInt(id.val)

OBJECTIVE == <<"a">>

INITIAL_TASK == <<"a">>

first_task == [task_id |-> IntId(1), task_name |-> INITIAL_TASK]

\* The value of a name the script has not bound yet.
NoTask == [task_id |-> [kind |-> "none", val |-> 0], task_name |-> <<>>]

AddTaskFront(q, t) == <<t>> \o q

add_task(q, t) == Append(q, t)

PopLeftKeeps(q) == q

\* task_list.popleft(): the queue that is left.
PopLeft(q) == Tail(q)

----------------------------------------------------------------------------
(* The providers *)

\* openai_call: the provider's text, stripped.
openai_call(raw) == Strip(raw)

\* get_ada_embedding's text.replace("\n", " "), the text that is embedded.
RECURSIVE get_ada_embedding(_)
get_ada_embedding(text) ==
    IF text = <<>> THEN <<>>
    ELSE <<IF Head(text) = "\n" THEN " " ELSE Head(text)>>
         \o get_ada_embedding(Tail(text))

ResultPrefix == <<"r", "e", "s", "u", "l", "t", "_">>

ResultIdOfName(t) == ResultPrefix \o t.task_name

\* result_id = f"result_{task['task_id']}"
ResultId(t) == ResultPrefix \o IdText(t.task_id)

UpsertAdds(idx, rec) == idx \cup {rec}

\* index.upsert: the record replaces the one stored under the same id.
Upsert(idx, rec) == {r \in idx : r.id # rec.id} \cup {rec}

TopK == 5

Scores == 1..MaxScore

Orderings(S) ==
    {f \in [1..Cardinality(S) -> S] :
        \A i, j \in 1..Cardinality(S) : i # j => f[i] # f[j]}

Match(rec, sc) ==
    [score |-> sc, metadata |-> [task |-> rec.task, result |-> rec.result]]

\* index.query(top_k = n): at most n of the records, in the store's order,
\* each with a score.
QueryAnswers(idx, n) ==
    UNION {
        {[i \in 1..Cardinality(S) |-> Match(f[i], sc[i])] :
            f \in Orderings(S), sc \in [1..Cardinality(S) -> Scores]} :
        S \in {T \in SUBSET idx : Cardinality(T) <= n}}

----------------------------------------------------------------------------
(* The agents *)

InsertAscending(x, s) ==
    LET k == Cardinality({i \in 1..Len(s) : s[i].score <= x.score}) IN
    SubSeq(s, 1, k) \o <<x>> \o SubSeq(s, k + 1, Len(s))

\* Where sorted(..., reverse=True) puts x in an already sorted list: behind
\* every element whose score is not lower (the sort is stable).
InsertDescending(x, s) ==
    LET k == Cardinality({i \in 1..Len(s) : s[i].score >= x.score}) IN
    SubSeq(s, 1, k) \o <<x>> \o SubSeq(s, k + 1, Len(s))

RECURSIVE SortedByScore(_)
SortedByScore(ms) ==
    IF ms = <<>> THEN <<>>
    ELSE InsertDescending(ms[Len(ms)], SortedByScore(SubSeq(ms, 1, Len(ms) - 1)))

context_agent(ms) ==
    LET sorted_results == SortedByScore(ms) IN
    [i \in 1..Len(sorted_results) |-> sorted_results[i].metadata.task]

TaskCreationSkipsEmpty(resp) ==
    LET names == SelectSeq(Split(resp, "\n"), LAMBDA n : n # <<>>) IN
    [i \in 1..Len(names) |-> [task_name |-> names[i]]]

\* response.split('\n'), one task without id per piece.
task_creation_agent(resp) ==
    LET names == Split(resp, "\n") IN
    [i \in 1..Len(names) |-> [task_name |-> names[i]]]

NextIdReused(c) == c

\* task_id_counter += 1
NextId(c) == c + 1

\* The for loop of the main loop's step 3: queue and counter after it.
RECURSIVE AddNewTasks(_, _, _)
AddNewTasks(q, c, ts) ==
    IF ts = <<>> THEN [queue |-> q, counter |-> c]
    ELSE AddNewTasks(
             add_task(q, [task_id |-> IntId(NextId(c)),
                          task_name |-> Head(ts).task_name]),
             NextId(c), Tail(ts))

PartsKeepAll(line) ==
    LET parts == SplitOnce(Strip(line), ".") IN
    IF Len(parts) = 2 THEN parts ELSE <<<<>>, parts[1]>>

\* task_string.strip().split(".", 1)
Parts(line) == SplitOnce(Strip(line), ".")

\* The for loop of prioritization_agent over the response's lines.
RECURSIVE ParseTasks(_)
ParseTasks(lines) ==
    IF lines = <<>> THEN <<>>
    ELSE LET task_parts == Parts(Head(lines)) IN
         (IF Len(task_parts) = 2
          THEN <<[task_id |-> StrId(Strip(task_parts[1])),
                  task_name |-> Strip(task_parts[2])]>>
          ELSE <<>>)
         \o ParseTasks(Tail(lines))

prioritization_agent(resp) == ParseTasks(Split(resp, "\n"))

----------------------------------------------------------------------------
(* The texts the completion provider returns in the loop specification *)

\* "1. a" after a space, and a line break behind it
NumberedLine == <<" ", "1", ".", " ", "a", "\n">>

\* "a.a": the part before the period is no number
LetteredLine == <<"a", ".", "a">>

\* two numbered lines, the higher number first
TwoNumbered == <<"2", ".", "a", "\n", "1", ".", "a">>

\* two lines with the same number
SameNumbered == <<"1", ".", "a", "\n", "1", ".", "a">>

\* a line without a period, an empty line, a line that ends in a period
MixedLines == <<"a", "\n", "\n", "1", ".">>

LoopTexts ==
    {<<>>, <<"a">>, NumberedLine, LetteredLine, TwoNumbered, SameNumbered,
     MixedLines}

ResultTexts == {<<"a">>, <<" ", "1", "\n">>}

----------------------------------------------------------------------------
(* The script *)

\* What each step leaves alone, by group.
queue_vars == <<task_list, task_id_counter, assigned>>

exec_vars == <<task, result, this_task_id, matches, context>>

call_vars == <<llm_calls, mem_queries, mem_writes>>

config_vars == <<objective, initial_task, join>>

Snapshot ==
    [queue |-> task_list, index |-> index, counter |-> task_id_counter,
     writes |-> mem_writes, completions |-> llm_calls]

\* Lines 133, 210-218: the state when the main loop is entered.
InitLoop ==
    /\ pc = "check"
    /\ err = "none"
    /\ task_list = add_task(<<>>, first_task)
    /\ task = NoTask
    /\ result = <<>>
    /\ this_task_id = 0
    /\ task_id_counter = 1
    /\ new_tasks = <<>>
    /\ response = <<>>
    /\ index = {}
    /\ matches = <<>>
    /\ context = <<>>
    /\ llm_calls = 0
    /\ mem_queries = 0
    /\ mem_writes = 0
    /\ assigned = <<>>
    /\ at_pop = [queue |-> <<>>, index |-> {}, counter |-> 1, writes |-> 0,
                 completions |-> 0]
    /\ trace = <<>>
    /\ polls = 0
    /\ executed = <<>>
    /\ objective = OBJECTIVE
    /\ initial_task = INITIAL_TASK
    /\ join = FALSE

Init == InitLoop

\* An exception nothing catches ends the script.
Raise(e) == pc' = "halted" /\ err' = e

QueueEmptyRaises ==
    /\ pc = "check"
    /\ task_list = <<>>
    /\ Raise("IndexError")
    /\ polls' = IF polls < MaxPolls THEN polls + 1 ELSE polls
    /\ UNCHANGED <<config_vars, executed,
                   queue_vars, exec_vars, call_vars, new_tasks, response,
                   index, at_pop, trace>>

\* Line 220 with an empty queue: nothing but the sleep of line 252 follows.
QueueEmpty ==
    /\ pc = "check"
    /\ task_list = <<>>
    /\ pc' = "sleeping"
    /\ polls' = IF polls < MaxPolls THEN polls + 1 ELSE polls
    /\ UNCHANGED <<config_vars, executed,
                   err, queue_vars, exec_vars, call_vars, new_tasks, response,
                   index, at_pop, trace>>

SleepReseeds ==
    /\ pc = "sleeping"
    /\ pc' = "check"
    /\ task_list' = IF polls >= 1 THEN <<first_task>> ELSE task_list
    /\ UNCHANGED <<config_vars, executed, err, task_id_counter, assigned,
                   exec_vars, call_vars, new_tasks, response, index, at_pop,
                   trace, polls>>

\* Line 252: the sleep that ends every pass of the while loop.
Sleep ==
    /\ pc = "sleeping"
    /\ pc' = "check"
    /\ UNCHANGED <<config_vars, executed,
                   err, queue_vars, exec_vars, call_vars, new_tasks, response,
                   index, at_pop, trace, polls>>

PopAt(places) ==
    /\ pc \in places
    /\ task_list # <<>>
    /\ task' = Head(task_list)
    /\ task_list' = PopLeft(task_list)
    /\ at_pop' = Snapshot
    /\ executed' = Append(executed, Head(task_list))
    /\ trace' = <<"pop">>
    /\ pc' = "executing"
    /\ UNCHANGED <<config_vars, err, result, this_task_id, matches, context,
                   task_id_counter, assigned, call_vars, new_tasks, response,
                   index, polls>>

PopBeforePrioritized == PopAt({"check", "prioritizing"})

PopRight ==
    /\ pc = "check"
    /\ task_list # <<>>
    /\ task' = task_list[Len(task_list)]
    /\ task_list' = SubSeq(task_list, 1, Len(task_list) - 1)
    /\ at_pop' = Snapshot
    /\ executed' = Append(executed, task_list[Len(task_list)])
    /\ trace' = <<"pop">>
    /\ pc' = "executing"
    /\ UNCHANGED <<config_vars, err, result, this_task_id, matches, context,
                   task_id_counter, assigned, call_vars, new_tasks, response,
                   index, polls>>

\* Lines 220-229: the first task leaves the queue.
Pop == PopAt({"check"})

\* Lines 232-233: execution_agent (context_agent, then the completion call)
\* and int(task["task_id"]), which raises ValueError on a non-numeric id.
Execute(texts) ==
    /\ pc = "executing"
    /\ \E ms \in QueryAnswers(index, TopK), raw \in texts :
        /\ matches' = ms
        /\ context' = context_agent(ms)
        /\ response' = openai_call(raw)
        /\ result' = response'
    /\ mem_queries' = mem_queries + 1
    /\ llm_calls' = llm_calls + 1
    /\ trace' = Append(trace, "execute")
    /\ IF IntReturns(task.task_id)
       THEN /\ this_task_id' = IntOf(task.task_id)
            /\ pc' = "storing"
            /\ err' = err
       ELSE /\ this_task_id' = this_task_id
            /\ Raise("ValueError")
    /\ UNCHANGED <<config_vars, executed,
                   queue_vars, task, mem_writes, new_tasks, index, at_pop,
                   polls>>

ExecuteRaisesAndRequeues ==
    /\ pc = "executing"
    /\ Raise("execution_completion")
    /\ task_list' = add_task(task_list, task)
    /\ mem_queries' = mem_queries + 1
    /\ llm_calls' = llm_calls + 1
    /\ UNCHANGED <<config_vars, executed,
                   task_id_counter, assigned, exec_vars, mem_writes, new_tasks,
                   response, index, at_pop, trace, polls>>

\* execution_agent raises: in the embedding of the objective, in the query,
\* or in the completion call.
ExecuteRaises ==
    /\ pc = "executing"
    /\ \/ /\ Raise("context_embedding")
          /\ UNCHANGED <<mem_queries, llm_calls>>
       \/ /\ Raise("query")
          /\ mem_queries' = mem_queries + 1
          /\ UNCHANGED llm_calls
       \/ /\ Raise("execution_completion")
          /\ mem_queries' = mem_queries + 1
          /\ llm_calls' = llm_calls + 1
    /\ UNCHANGED <<config_vars, executed,
                   queue_vars, exec_vars, mem_writes, new_tasks, response,
                   index, at_pop, trace, polls>>

StoreTwice ==
    /\ pc = "storing"
    /\ index' = Upsert(index, [id |-> ResultId(task),
                               vector |-> get_ada_embedding(result),
                               task |-> task.task_name,
                               result |-> result])
    /\ mem_writes' = mem_writes + 2
    /\ trace' = Append(trace, "store")
    /\ pc' = "creating"
    /\ UNCHANGED <<config_vars, executed,
                   err, queue_vars, exec_vars, llm_calls, mem_queries,
                   new_tasks, response, at_pop, polls>>

\* Lines 238-241: the result is embedded and upserted under result_id.
Store ==
    /\ pc = "storing"
    /\ index' = Upsert(index, [id |-> ResultId(task),
                               vector |-> get_ada_embedding(result),
                               task |-> task.task_name,
                               result |-> result])
    /\ mem_writes' = mem_writes + 1
    /\ trace' = Append(trace, "store")
    /\ pc' = "creating"
    /\ UNCHANGED <<config_vars, executed,
                   err, queue_vars, exec_vars, llm_calls, mem_queries,
                   new_tasks, response, at_pop, polls>>

\* Line 241 raises: in the embedding of the result, or in the upsert.
StoreRaises ==
    /\ pc = "storing"
    /\ \/ /\ Raise("result_embedding")
          /\ UNCHANGED mem_writes
       \/ /\ Raise("upsert")
          /\ mem_writes' = mem_writes + 1
    /\ UNCHANGED <<config_vars, executed,
                   queue_vars, exec_vars, llm_calls, mem_queries, new_tasks,
                   response, index, at_pop, trace, polls>>

\* Line 244: task_creation_agent.
Create(texts) ==
    /\ pc = "creating"
    /\ \E raw \in texts :
        /\ response' = openai_call(raw)
        /\ new_tasks' = task_creation_agent(response')
    /\ llm_calls' = llm_calls + 1
    /\ trace' = Append(trace, "create")
    /\ pc' = "appending"
    /\ UNCHANGED <<config_vars, executed,
                   err, queue_vars, exec_vars, mem_queries, mem_writes, index,
                   at_pop, polls>>

CreateRaises ==
    /\ pc = "creating"
    /\ Raise("creation_completion")
    /\ llm_calls' = llm_calls + 1
    /\ UNCHANGED <<config_vars, executed,
                   queue_vars, exec_vars, mem_queries, mem_writes, new_tasks,
                   response, index, at_pop, trace, polls>>

\* Lines 246-249: every new task gets the next id and joins the queue.  The
\* step is taken while the counter stays within limit.
AppendNew(limit) ==
    /\ pc = "appending"
    /\ LET after == AddNewTasks(task_list, task_id_counter, new_tasks) IN
        /\ after.counter <= limit
        /\ task_list' = after.queue
        /\ task_id_counter' = after.counter
        /\ assigned' = assigned \o
               [i \in 1..(Len(after.queue) - Len(task_list)) |->
                   after.queue[Len(task_list) + i].task_id.val]
    /\ trace' = Append(trace, "append")
    /\ pc' = "prioritizing"
    /\ UNCHANGED <<config_vars, executed,
                   err, exec_vars, call_vars, new_tasks, response, index,
                   at_pop, polls>>

\* Line 250: prioritization_agent replaces the queue.
Prioritize(texts) ==
    /\ pc = "prioritizing"
    /\ \E raw \in texts :
        /\ response' = openai_call(raw)
        /\ task_list' = prioritization_agent(response')
    /\ llm_calls' = llm_calls + 1
    /\ trace' = Append(trace, "prioritize")
    /\ pc' = "sleeping"
    /\ UNCHANGED <<config_vars, executed,
                   err, task_id_counter, assigned, exec_vars, mem_queries,
                   mem_writes, new_tasks, index, at_pop, polls>>

\* The completion call of prioritization_agent raises: line 184 is not
\* reached and the queue keeps the appended tasks.
PrioritizeRaises ==
    /\ pc = "prioritizing"
    /\ Raise("prioritization_completion")
    /\ llm_calls' = llm_calls + 1
    /\ UNCHANGED <<config_vars, executed,
                   queue_vars, exec_vars, mem_queries, mem_writes, new_tasks,
                   response, index, at_pop, trace, polls>>

ExecuteLoop == Execute(ResultTexts)

CreateLoop == Create(LoopTexts)

AppendLoop == AppendNew(MaxCounter)

PrioritizeLoop == Prioritize(LoopTexts)

Next ==
    \/ QueueEmpty
    \/ Sleep
    \/ Pop
    \/ ExecuteLoop
    \/ ExecuteRaises
    \/ Store
    \/ StoreRaises
    \/ CreateLoop
    \/ CreateRaises
    \/ AppendLoop
    \/ PrioritizeLoop
    \/ PrioritizeRaises

Spec == Init /\ [][Next]_vars

----------------------------------------------------------------------------
(* The parsers on every text of at most MaxLen characters.  Both start in  *)
(* the second iteration of a run of the loop: the seed task gave the       *)
(* result "a", one task "a" was created with id 2, the prioritization      *)
(* response was "2.a" and "1.a" on two lines, and task "2" was popped,     *)
(* executed with the result "a" and stored.                                *)

SeedRecord ==
    [id |-> ResultId(first_task), vector |-> <<"a">>, task |-> INITIAL_TASK,
     result |-> <<"a">>]

SecondTask == [task_id |-> StrId(<<"2">>), task_name |-> <<"a">>]

ThirdTask == [task_id |-> StrId(<<"1">>), task_name |-> <<"a">>]

SecondRecord ==
    [id |-> ResultId(SecondTask), vector |-> <<"a">>, task |-> <<"a">>,
     result |-> <<"a">>]

\* Before line 244 of the second iteration.
InitCreate ==
    /\ pc = "creating"
    /\ err = "none"
    /\ task_list = <<ThirdTask>>
    /\ task = SecondTask
    /\ result = <<"a">>
    /\ this_task_id = 2
    /\ task_id_counter = 2
    /\ new_tasks = <<[task_name |-> <<"a">>]>>
    /\ response = <<"a">>
    /\ index = {SeedRecord, SecondRecord}
    /\ matches = <<>>
    /\ context = <<>>
    /\ llm_calls = 4
    /\ mem_queries = 2
    /\ mem_writes = 2
    /\ assigned = <<2>>
    /\ at_pop = [queue |-> <<SecondTask, ThirdTask>>, index |-> {SeedRecord},
                 counter |-> 2, writes |-> 1, completions |-> 3]
    /\ trace = <<"pop", "execute", "store">>
    /\ polls = 0
    /\ executed = <<first_task, SecondTask>>
    /\ objective = OBJECTIVE
    /\ initial_task = INITIAL_TASK
    /\ join = FALSE

CreateAny == Create(TextsUpTo(MaxLen))

AppendCreated == AppendNew(task_id_counter + Len(new_tasks))

NextCreate == CreateAny \/ AppendCreated

SpecCreate == InitCreate /\ [][NextCreate]_vars

\* Before line 250 of the second iteration: the creation response was "a".
InitPrioritize ==
    /\ pc = "prioritizing"
    /\ err = "none"
    /\ task_list = <<ThirdTask, [task_id |-> IntId(3), task_name |-> <<"a">>]>>
    /\ task = SecondTask
    /\ result = <<"a">>
    /\ this_task_id = 2
    /\ task_id_counter = 3
    /\ new_tasks = <<[task_name |-> <<"a">>]>>
    /\ response = <<"a">>
    /\ index = {SeedRecord, SecondRecord}
    /\ matches = <<>>
    /\ context = <<>>
    /\ llm_calls = 5
    /\ mem_queries = 2
    /\ mem_writes = 2
    /\ assigned = <<2, 3>>
    /\ at_pop = [queue |-> <<SecondTask, ThirdTask>>, index |-> {SeedRecord},
                 counter |-> 2, writes |-> 1, completions |-> 3]
    /\ trace = <<"pop", "execute", "store", "create", "append">>
    /\ polls = 0
    /\ executed = <<first_task, SecondTask>>
    /\ objective = OBJECTIVE
    /\ initial_task = INITIAL_TASK
    /\ join = FALSE

PrioritizeAny == Prioritize(TextsUpTo(MaxLen))

NextPrioritize == PrioritizeAny

SpecPrioritize == InitPrioritize /\ [][NextPrioritize]_vars

----------------------------------------------------------------------------
(* context_agent on every answer of the index.  The index outlives the     *)
(* script (lines 126-130 create it only when it is missing), so the first  *)
(* iteration may find the records of earlier runs in it.                   *)

TaskNames == {<<"a">>, <<"1">>}

\* The indexes earlier runs may have left: results 1..k, any task names.
EarlierIndexes ==
    UNION {
        {{[id |-> ResultPrefix \o Str(i), vector |-> <<"a">>,
           task |-> names[i], result |-> <<"a">>] : i \in 1..k} :
            names \in [1..k -> TaskNames]} :
        k \in 0..MaxMatches}

\* Before line 232 of the first iteration.
InitContext ==
    /\ pc = "executing"
    /\ err = "none"
    /\ task_list = <<>>
    /\ task = first_task
    /\ result = <<>>
    /\ this_task_id = 0
    /\ task_id_counter = 1
    /\ new_tasks = <<>>
    /\ response = <<>>
    /\ index \in EarlierIndexes
    /\ matches = <<>>
    /\ context = <<>>
    /\ llm_calls = 0
    /\ mem_queries = 0
    /\ mem_writes = 0
    /\ assigned = <<>>
    /\ at_pop = [queue |-> <<first_task>>, index |-> index, counter |-> 1,
                 writes |-> 0, completions |-> 0]
    /\ trace = <<"pop">>
    /\ polls = 0
    /\ executed = <<first_task>>
    /\ objective = OBJECTIVE
    /\ initial_task = INITIAL_TASK
    /\ join = FALSE

NextContext == ExecuteLoop \/ ExecuteRaises

SpecContext == InitContext /\ [][NextContext]_vars

----------------------------------------------------------------------------
(* The start of the script, on every objective of at most MaxConfigLen     *)
(* characters.  The API keys, the table name and the instance name of      *)
(* lines 18-29 and 70-74 are taken as present.                             *)

ConfigMissingUnstripped(obj, t, j) == obj = <<>> \/ (t = <<>> /\ ~ j)

\* Lines 92-102: no objective once stripped, or no initial task without -j.
ConfigMissing(obj, t, j) == Strip(obj) = <<>> \/ (t = <<>> /\ ~ j)

\* After line 68: the arguments are parsed, nothing else has run.
InitConfig ==
    /\ pc = "config"
    /\ err = "none"
    /\ task_list = <<>>
    /\ task = NoTask
    /\ result = <<>>
    /\ this_task_id = 0
    /\ task_id_counter = 1
    /\ new_tasks = <<>>
    /\ response = <<>>
    /\ index = {}
    /\ matches = <<>>
    /\ context = <<>>
    /\ llm_calls = 0
    /\ mem_queries = 0
    /\ mem_writes = 0
    /\ assigned = <<>>
    /\ at_pop = [queue |-> <<>>, index |-> {}, counter |-> 1, writes |-> 0,
                 completions |-> 0]
    /\ trace = <<>>
    /\ polls = 0
    /\ executed = <<>>
    /\ objective \in TextsUpTo(MaxConfigLen)
    /\ initial_task \in {<<>>, <<" ">>, <<"a">>}
    /\ join \in BOOLEAN

\* Lines 84-218: parser.exit() when -j finds no ray package or the
\* configuration is missing; else the seed task enters the queue.
Startup ==
    /\ pc = "config"
    /\ \E importable \in BOOLEAN :
        IF (join /\ ~ importable) \/ ConfigMissing(objective, initial_task, join)
        THEN /\ pc' = "exited"
             /\ UNCHANGED task_list
        ELSE /\ pc' = "check"
             /\ task_list' = add_task(task_list,
                                      [task_id |-> IntId(1),
                                       task_name |-> initial_task])
    /\ UNCHANGED <<config_vars, executed, err, task_id_counter, assigned,
                   exec_vars, call_vars, new_tasks, response, index, at_pop,
                   trace, polls>>

NextConfig == Startup \/ Pop

SpecConfig == InitConfig /\ [][NextConfig]_vars

----------------------------------------------------------------------------
(* Properties of the loop *)

Phases == <<"pop", "execute", "store", "create", "append", "prioritize">>

\* The record the current iteration stores.
RecordOfTask ==
    [id |-> ResultPrefix \o IdText(task.task_id),
     vector |-> get_ada_embedding(result),
     task |-> task.task_name,
     result |-> result]

\* The tasks that stood behind the popped task.
Behind == Tail(at_pop.queue)

\* C1: the ids the loop gives to new tasks are 2, 3, 4, ... in the order of
\* assignment: strictly increasing, one apart, starting at 2, none given
\* twice, whatever the prioritization responses in between were; the counter
\* is the last id given.
C1_IdsCountUp ==
    /\ \A i \in 1..Len(assigned) : assigned[i] = i + 1
    /\ task_id_counter = Len(assigned) + 1

\* Ids were given in two iterations, with a prioritization between them.
C1_Witness ==
    /\ pc = "prioritizing"
    /\ mem_writes = 2
    /\ Len(assigned) >= 3

\* C2: a store step writes the record under "result_" and the text of the
\* popped task's id, with that task's name and the result as metadata;
\* the other records stay as they were, the index never holds two records
\* with one id, and a write under an id already present leaves the number
\* of records as it was.
C2_StoredUnderResultId ==
    /\ [](\A r, q \in index : r.id = q.id => r = q)
    /\ [][(pc = "storing" /\ pc' = "creating") =>
            LET rid == ResultPrefix \o IdText(task.task_id) IN
            /\ task = Head(at_pop.queue)
            /\ \E r \in index' :
                /\ r.id = rid
                /\ r.task = task.task_name
                /\ r.result = result
            /\ \A q \in index' : q.id # rid => q \in index
            /\ \A q \in index : q.id # rid => q \in index'
            /\ (\E q \in index : q.id = rid) =>
                   Cardinality(index') = Cardinality(index)
            /\ (\A q \in index : q.id # rid) =>
                   Cardinality(index') = Cardinality(index) + 1]_vars

\* Two results were written under one id and one record is left.
C2_Witness ==
    /\ pc = "creating"
    /\ mem_writes = 2
    /\ Cardinality(index) = 1
    /\ \E r \in at_pop.index : r.id = RecordOfTask.id /\ r # RecordOfTask

\* C3: while the task is executed and its result stored the queue holds
\* exactly the tasks that stood behind it; the counter moves, and tasks are
\* appended, only once the index holds the record of that result; when the
\* execution, an embedding or the upsert raises, the queue and the counter
\* are as the pop left them.
C3_AppendAfterStore ==
    /\ pc \in {"executing", "storing"} =>
           task = Head(at_pop.queue) /\ task_list = Behind
    /\ pc \in {"creating", "appending"} => task_list = Behind
    /\ task_id_counter >= at_pop.counter
    /\ (task_id_counter > at_pop.counter \/ pc = "prioritizing") =>
           RecordOfTask \in index
    /\ pc = "prioritizing" =>
           /\ SubSeq(task_list, 1, Len(Behind)) = Behind
           /\ Len(task_list) = Len(Behind) + Len(new_tasks)
    /\ err \in {"context_embedding", "query", "execution_completion",
                "ValueError", "result_embedding", "upsert"} =>
           /\ task_list = Behind
           /\ task_id_counter = at_pop.counter

\* The upsert raised while tasks stood behind the popped one.
C3_Witness ==
    /\ err = "upsert"
    /\ Behind # <<>>
    /\ task_list = Behind

\* C4: a queue found empty raises nothing and ends nothing: the loop makes
\* no completion, query or upsert call, sleeps, and checks the queue again,
\* which is still empty.
C4_IdlePolls ==
    /\ [](task_list = <<>> /\ pc \in {"check", "sleeping"} =>
              err = "none" /\ ENABLED Next)
    /\ [][(task_list = <<>> /\ pc \in {"check", "sleeping"}) =>
            /\ pc' = (IF pc = "check" THEN "sleeping" ELSE "check")
            /\ err' = "none"
            /\ task_list' = <<>>
            /\ UNCHANGED <<llm_calls, mem_queries, mem_writes, index,
                           task_id_counter>>]_vars

\* The empty queue was found a second time.
C4_Witness ==
    /\ pc = "sleeping"
    /\ task_list = <<>>
    /\ polls >= 2

\* C5: when the completion call of execution_agent raises, the script has
\* halted, the queue holds exactly the tasks that stood behind the popped
\* task, in their order and with their ids and names, and the index, the
\* number of upserts and the counter are as they were when the task was
\* popped.
C5_ExecutionFailureDropsTask ==
    err = "execution_completion" =>
        /\ pc = "halted"
        /\ ~ ENABLED Next
        /\ task_list = Behind
        /\ index = at_pop.index
        /\ task_id_counter = at_pop.counter
        /\ mem_writes = at_pop.writes

\* The completion call raised for a task with another task behind it.
C5_Witness ==
    /\ err = "execution_completion"
    /\ Len(at_pop.queue) >= 2
    /\ task_list = Behind

\* C7: no response of the prioritization call makes a later step raise: the
\* script never ends in the ValueError of int(task["task_id"]).
C7_MalformedNeverRaises == err # "ValueError"

\* The lines of a text, by the places of its line breaks.
Breaks(t) == {i \in 1..Len(t) : t[i] = "\n"}

LineCount(t) == Cardinality(Breaks(t)) + 1

NthBreak(t, k) ==
    CHOOSE i \in Breaks(t) : Cardinality({j \in Breaks(t) : j <= i}) = k

LineOf(t, k) ==
    SubSeq(t,
           IF k = 1 THEN 1 ELSE NthBreak(t, k - 1) + 1,
           IF k = LineCount(t) THEN Len(t) ELSE NthBreak(t, k) - 1)

HasPeriod(l) == \E i \in 1..Len(l) : l[i] = "."

FirstPeriod(l) ==
    CHOOSE i \in 1..Len(l) : l[i] = "." /\ \A j \in 1..(i - 1) : l[j] # "."

\* A text without the whitespace around it.
Trimmed(s) ==
    LET inked == {i \in 1..Len(s) : s[i] \notin {" ", "\n"}} IN
    IF inked = {} THEN <<>>
    ELSE SubSeq(s, CHOOSE i \in inked : \A j \in inked : i <= j,
                   CHOOSE i \in inked : \A j \in inked : i >= j)

DottedLines(t) == {k \in 1..LineCount(t) : HasPeriod(LineOf(t, k))}

NthDotted(t, n) ==
    CHOOSE k \in DottedLines(t) :
        Cardinality({j \in DottedLines(t) : j <= k}) = n

\* The tasks the current iteration appended.
Appended == SubSeq(task_list, Len(Behind) + 1, Len(task_list))

\* C6: after prioritization_agent the queue holds one task for every line
\* of the response that has a period, in the order of the lines, its
\* task_id the trimmed text before the line's first period and its task_name
\* the trimmed text behind it, and nothing else: lines without a period and
\* the tasks of the old queue leave no task.
C6_QueueFromDottedLines ==
    (pc = "sleeping" /\ trace = Phases) =>
        /\ Len(task_list) = Cardinality(DottedLines(response))
        /\ \A n \in 1..Len(task_list) :
            LET l == LineOf(response, NthDotted(response, n))
                d == FirstPeriod(l)
            IN  /\ task_list[n].task_id =
                       [kind |-> "str", val |-> Trimmed(SubSeq(l, 1, d - 1))]
                /\ task_list[n].task_name = Trimmed(SubSeq(l, d + 1, Len(l)))

\* A response of two lines, one of them without a period, left one task.
C6_Witness ==
    /\ pc = "sleeping"
    /\ trace = Phases
    /\ LineCount(response) = 2
    /\ Len(task_list) = 1
    /\ task_list[1].task_name # <<>>

\* C8 as stated: the loop appends one task for every non-empty line of the
\* creation response, and no appended task has an empty name.
C8_OnePerNonEmptyLine ==
    pc = "prioritizing" =>
        /\ Len(Appended) =
               Cardinality({k \in 1..LineCount(response) :
                               LineOf(response, k) # <<>>})
        /\ \A i \in 1..Len(Appended) : Appended[i].task_name # <<>>

\* C8 as amended: task_creation_agent returns, and the loop appends, one
\* task for every line of the creation response, empty lines included, in
\* the order of the lines; the task's name is the text of its line.
C8_OnePerLine ==
    /\ pc = "appending" =>
           /\ Len(new_tasks) = LineCount(response)
           /\ \A k \in 1..Len(new_tasks) :
                  new_tasks[k] = [task_name |-> LineOf(response, k)]
    /\ pc = "prioritizing" =>
           /\ Len(Appended) = LineCount(response)
           /\ \A k \in 1..Len(Appended) :
                  Appended[k] = [task_id |-> [kind |-> "int",
                                              val |-> at_pop.counter + k],
                                 task_name |-> LineOf(response, k)]

\* Three lines, the middle one empty, gave three tasks.
C8_Witness ==
    /\ pc = "prioritizing"
    /\ LineCount(response) = 3
    /\ Len(Appended) = 3
    /\ Appended[2].task_name = <<>>
    /\ Appended[1].task_name # <<>>

\* C9: context_agent returns the task of every match, one entry for each,
\* in an order in which the scores never rise; no match gives the empty
\* list, and execution_agent goes on to its completion call.
C9_ContextByScore ==
    pc = "storing" =>
        /\ Len(context) = Len(matches)
        /\ \E p \in [1..Len(matches) -> 1..Len(matches)] :
            /\ \A i, j \in 1..Len(matches) : i # j => p[i] # p[j]
            /\ \A i \in 1..Len(matches) :
                   context[i] = matches[p[i]].metadata.task
            /\ \A i \in 1..(Len(matches) - 1) :
                   matches[p[i]].score >= matches[p[i + 1]].score
        /\ err = "none"
        /\ llm_calls = mem_queries
        /\ result = response

\* The index answered with the lower score first.
C9_Witness ==
    /\ pc = "storing"
    /\ Len(matches) >= 2
    /\ matches[1].score < matches[2].score
    /\ matches[1].metadata.task # matches[2].metadata.task
    /\ context[1] = matches[2].metadata.task

\* C10: the phases of an iteration are pop, execute, store, create, append,
\* prioritize, in this order and none twice; a task is popped only at the
\* queue check, with the previous iteration prioritized; after prioritizing
\* the loop sleeps, checks the queue, and pops when it holds a task and
\* idles when it holds none.
C10_PhaseOrder ==
    /\ [](/\ \E n \in 0..Len(Phases) : trace = SubSeq(Phases, 1, n)
          /\ pc = "executing" => Len(trace) = 1
          /\ pc = "storing" => Len(trace) = 2
          /\ pc = "creating" => Len(trace) = 3
          /\ pc = "appending" => Len(trace) = 4
          /\ pc = "prioritizing" => Len(trace) = 5
          /\ pc \in {"check", "sleeping"} => trace \in {<<>>, Phases})
    /\ [][/\ pc' = "executing" =>
                /\ pc = "check"
                /\ task_list # <<>>
                /\ trace \in {<<>>, Phases}
                /\ trace' = <<"pop">>
          /\ pc = "check" =>
                pc' = (IF task_list = <<>> THEN "sleeping" ELSE "executing")
          /\ pc = "sleeping" => pc' = "check" /\ task_list' = task_list
          /\ (pc = "prioritizing" /\ pc' # "halted") =>
                pc' = "sleeping" /\ trace' = Phases
          /\ (trace' # trace /\ pc' # "executing") =>
                trace' = Append(trace, Phases[Len(trace) + 1])]_vars

\* A second iteration has begun after a first one ran through.
C10_Witness ==
    /\ pc = "executing"
    /\ llm_calls = 3
    /\ mem_writes = 1

\* C13: with no objective left after stripping, or with no initial task
\* and join mode off, the script only exits: the queue never gets the seed
\* task, no completion, query or upsert call is made, no task is popped, and
\* nothing follows the exit.
C13_ConfigErrorsExit ==
    (Trimmed(objective) = <<>> \/ (initial_task = <<>> /\ ~ join)) =>
        /\ pc \in {"config", "exited"}
        /\ task_list = <<>>
        /\ executed = <<>>
        /\ trace = <<>>
        /\ llm_calls = 0
        /\ mem_queries = 0
        /\ mem_writes = 0
        /\ index = {}
        /\ pc = "exited" => ~ ENABLED NextConfig

\* The script exited on an objective of spaces, with an initial task given.
C13_Witness ==
    /\ pc = "exited"
    /\ objective # <<>>
    /\ Trimmed(objective) = <<>>
    /\ initial_task # <<>>

\* C11: at the queue check, after the append and after the prioritization
\* no two tasks of the queue have one task_id, and no task of the queue has
\* the task_id of a task that was executed.
C11_IdsUnique ==
    pc \in {"check", "prioritizing", "sleeping"} =>
        /\ \A i, j \in 1..Len(task_list) :
               i # j => task_list[i].task_id # task_list[j].task_id
        /\ \A i \in 1..Len(task_list) : \A k \in 1..Len(executed) :
               task_list[i].task_id # executed[k].task_id

\* C12: an iteration that ran through made one upsert and two to three
\* completion calls, and the passes that found the queue empty since then
\* made none.
C12_CallsPerIteration ==
    /\ trace = Phases =>
           /\ mem_writes = at_pop.writes + 1
           /\ llm_calls - at_pop.completions \in 2..3
    /\ polls >= 1 => trace = Phases

\* The queue was found empty after an iteration with three completion calls.
C12_Witness ==
    /\ polls >= 1
    /\ pc = "check"
    /\ mem_writes = at_pop.writes + 1
    /\ llm_calls = at_pop.completions + 3

\* C14: from the pop to the prioritization the tasks that stood behind the
\* popped task keep their place, id and name; the new tasks stand behind
\* them, in the order task_creation_agent returned them.
C14_OnlyPrioritizationRewrites ==
    /\ pc \in {"executing", "storing", "creating", "appending"} =>
           /\ Len(task_list) = Len(at_pop.queue) - 1
           /\ \A i \in 1..Len(task_list) : task_list[i] = at_pop.queue[i + 1]
    /\ pc = "prioritizing" =>
           /\ Len(task_list) = Len(at_pop.queue) - 1 + Len(new_tasks)
           /\ \A i \in 1..(Len(at_pop.queue) - 1) :
                  task_list[i] = at_pop.queue[i + 1]
           /\ \A k \in 1..Len(new_tasks) :
                  task_list[Len(at_pop.queue) - 1 + k].task_name =
                      new_tasks[k].task_name

\* Two tasks were appended behind a task that was waiting.
C14_Witness ==
    /\ pc = "prioritizing"
    /\ Len(at_pop.queue) >= 2
    /\ Len(new_tasks) >= 2
    /\ new_tasks[1] # new_tasks[2]

\* The first task a prioritization response gives.
FirstTaskOf(resp) ==
    LET l == LineOf(resp, NthDotted(resp, 1))
        d == FirstPeriod(l)
    IN  [task_id |-> [kind |-> "str", val |-> Trimmed(SubSeq(l, 1, d - 1))],
         task_name |-> Trimmed(SubSeq(l, d + 1, Len(l)))]

\* C15: the task of an iteration is the head of the queue as it stood at the
\* pop: the seed task in the first iteration, and in every later one the
\* first task of the preceding prioritization response.
C15_HeadIsExecuted ==
    trace # <<>> =>
        /\ task = Head(at_pop.queue)
        /\ executed # <<>>
        /\ executed[Len(executed)] = task
        /\ Len(executed) = 1 => task = first_task
        /\ (Len(executed) > 1 /\ pc = "executing") =>
               task = FirstTaskOf(response)

\* The second iteration popped the head of a queue of two different tasks.
C15_Witness ==
    /\ pc = "executing"
    /\ Len(executed) = 2
    /\ Len(at_pop.queue) = 2
    /\ at_pop.queue[1] # at_pop.queue[2]

\* C16 as stated: the queue is not empty when prioritization_agent is
\* called, and no step but the prioritization makes the queue empty.
C16_OnlyPrioritizationEmpties ==
    /\ [](pc = "prioritizing" => task_list # <<>>)
    /\ [][(task_list # <<>> /\ task_list' = <<>>) => pc = "prioritizing"]_vars

\* C16 as amended: task_creation_agent returns at least one task, so the
\* queue is not empty when prioritization_agent is called; the queue is
\* empty at a queue check only after a prioritization whose response has no
\* line with a period.
C16_NonEmptyBeforePrioritization ==
    /\ pc = "appending" => Len(new_tasks) >= 1
    /\ pc = "prioritizing" =>
           task_list # <<>> /\ Len(task_list) > Len(at_pop.queue) - 1
    /\ (pc \in {"check", "sleeping"} /\ task_list = <<>>) =>
           trace = Phases /\ DottedLines(response) = {}

\* The empty creation response gave the one task of the queue.
C16_Witness ==
    /\ pc = "prioritizing"
    /\ Len(at_pop.queue) = 1
    /\ new_tasks = <<[task_name |-> <<>>]>>
    /\ Len(task_list) = 1

\* C17: once the queue was found empty it is empty for good: the loop only
\* sleeps and checks, and the counter, the index, the number of upserts and
\* the tasks executed are those the last iteration left.
C17_IdleIsAbsorbing ==
    polls >= 1 =>
        /\ task_list = <<>>
        /\ pc \in {"check", "sleeping"}
        /\ err = "none"
        /\ task_id_counter = at_pop.counter + Len(new_tasks)
        /\ index = {r \in at_pop.index : r.id # RecordOfTask.id}
                       \cup {RecordOfTask}
        /\ mem_writes = at_pop.writes + 1
        /\ Len(executed) = mem_writes
        /\ executed[Len(executed)] = task

\* The queue was found empty twice and is checked a third time.
C17_Witness ==
    /\ polls >= 2
    /\ pc = "check"
    /\ Len(executed) >= 2

\* C18: the seed task is the only executed task whose id is an int; every
\* later one has an id read from a prioritization response, and every record
\* of the index is stored under the id of an executed task, which is the
\* seed's or such a response's.
C18_CounterIdsNeverExecuted ==
    /\ \A i \in 1..Len(executed) :
           IF i = 1 THEN executed[i] = first_task
           ELSE executed[i].task_id.kind = "str"
    /\ \A r \in index : \E i \in 1..Len(executed) :
           /\ r.id = ResultPrefix \o IdText(executed[i].task_id)
           /\ r.id # ResultPrefix \o <<"1">> => i > 1

\* The counter gave the id 2, and a task with the response's id "2" was
\* executed and stored as result_2.
C18_Witness ==
    /\ Len(executed) >= 2
    /\ executed[2].task_id = [kind |-> "str", val |-> <<"2">>]
    /\ \E i \in 1..Len(assigned) : assigned[i] = 2
    /\ \E r \in index : r.id = ResultPrefix \o <<"2">>

====
